---- MODULE Spec2Model ----
(***************************************************************************)
(* A model of the Sickw order parser (src/index.tsx): the record extractor *)
(* parseSickwHtml, the classifier, the bulk search, the export formatter   *)
(* and the App component's state with its event handlers.                  *)
(*                                                                         *)
(* A JavaScript string is a sequence of one-character strings.  Positions  *)
(* are 1-based; an index of 0 stands for JavaScript's -1 (not found).      *)
(***************************************************************************)
EXTENDS Naturals, Integers, Sequences, FiniteSets, TLC

VARIABLES
    devices,             \* useState<Device[]>: the Registry
    view,                \* 'upload' | 'dashboard'
    bulkQuery,           \* the text of the bulk query box
    searchResults,       \* Null, or Some(list of devices)
    icloudAlertDevices,  \* devices shown by the iCloud alert modal
    notFoundQueries,     \* tokens shown by the not-found modal
    exportText,          \* text shown by the export modal
    showExportModal,
    isProcessingImages,
    manualFixQueue,      \* FailedImage[]
    pendingReads,        \* FileReader.readAsText calls whose onload has not run
    imgRun,              \* the suspended handleImageUpload call, or NoRun
    nextFile             \* number of File objects handed to handleImageUpload so far

vars == <<devices, view, bulkQuery, searchResults, icloudAlertDevices, notFoundQueries,
          exportText, showExportModal, isProcessingImages, manualFixQueue, pendingReads,
          imgRun, nextFile>>

--------------------------------------------------------------------------
(* String literals of the source.                                         *)

IMEI_MARKER ==
    <<"<", "b", ">", "I", "M", "E", "I", ":", " ", "<", "/", "b", ">">>
PRE_OPEN ==
    <<"<", "p", "r", "e", ">">>
PRE_CLOSE ==
    <<"<", "/", "p", "r", "e", ">">>
BR_TAG ==
    <<"<", "b", "r">>
NEWLINE ==
    <<"\n">>
NBSP_ENTITY ==
    <<"&", "n", "b", "s", "p", ";">>
KEY_ModelDescription ==
    <<"M", "o", "d", "e", "l", " ", "D", "e", "s", "c", "r", "i", "p", "t", "i", "o", "n">>
KEY_IMEI2 ==
    <<"I", "M", "E", "I", "2">>
KEY_SerialNumber ==
    <<"S", "e", "r", "i", "a", "l", " ", "N", "u", "m", "b", "e", "r">>
KEY_WarrantyStatus ==
    <<"W", "a", "r", "r", "a", "n", "t", "y", " ", "S", "t", "a", "t", "u", "s">>
KEY_iCloudLock ==
    <<"i", "C", "l", "o", "u", "d", " ", "L", "o", "c", "k">>
KEY_LockedCarrier ==
    <<"L", "o", "c", "k", "e", "d", " ", "C", "a", "r", "r", "i", "e", "r">>
KEY_SimLockStatus ==
    <<"S", "i", "m", "-", "L", "o", "c", "k", " ", "S", "t", "a", "t", "u", "s">>
KEY_EstimatedPurchaseDate ==
    <<"E", "s", "t", "i", "m", "a", "t", "e", "d", " ", "P", "u", "r", "c", "h", "a", "s", "e",
      " ", "D", "a", "t", "e">>
KEY_ActivationStatus ==
    <<"A", "c", "t", "i", "v", "a", "t", "i", "o", "n", " ", "S", "t", "a", "t", "u", "s">>
W_unlocked ==
    <<"u", "n", "l", "o", "c", "k", "e", "d">>
W_unlock ==
    <<"u", "n", "l", "o", "c", "k">>
W_open_policy ==
    <<"o", "p", "e", "n", " ", "p", "o", "l", "i", "c", "y">>
W_t_mobile ==
    <<"t", "-", "m", "o", "b", "i", "l", "e">>
W_sprint ==
    <<"s", "p", "r", "i", "n", "t">>
W_at_t ==
    <<"a", "t", "&", "t">>
W_verizon ==
    <<"v", "e", "r", "i", "z", "o", "n">>
W_not_activated ==
    <<"n", "o", "t", " ", "a", "c", "t", "i", "v", "a", "t", "e", "d">>
W_USA ==
    <<"-", "U", "S", "A">>
W_ON ==
    <<"O", "N">>
separator ==
    <<"=", "=", "=", "=", "=", "=", "=", "=", "=", "=", "=", "=", "=", "=", "=", "=", "=", "=",
      "=", "=", "=", "=", "=", "=", "=", "=", "=", "=", "=", "=", "=">>
HDR_icloud ==
    <<"*", "I", "C", "L", "O", "U", "D", "*", "\n", "\n">>
HDR_tmobileNonActive ==
    <<"l", "o", "c", "k", "e", "d", " ", "a", "n", "d", " ", "n", "o", "n", " ", "a", "c", "t",
      "i", "v", "e", " ", "t", "m", "o", "b", "l", "i", "e", " ", "w", "i", "t", "h", " ", "n",
      "e", "t", "w", "o", "r", "k", " ", "p", "h", "o", "n", "e", " ", "a", "r", "e", " ", "l",
      "i", "k", "e", " ", "t", "h", "i", "s", " ", "w", "i", "t", "h", " ", "t", "h", "e", " ",
      "d", "e", "v", "i", "c", "e", " ", "d", "e", "t", "e", "t", "i", "l", "s", ",", "\n",
      "\n", "*", "L", "O", "C", "K", "E", "D", " ", "N", " ", "N", "O", "N", " ", "A", "C",
      "T", "I", "V", "E", " ", "T", "-", "M", "O", "B", "I", "L", "E", "*", "\n", "\n">>
HDR_tmobileActive ==
    <<"*", "L", "O", "C", "K", "E", "D", " ", "N", " ", "A", "C", "T", "I", "V", "E", " ", "T",
      "-", "M", "O", "B", "I", "L", "E", "*", "\n", "\n">>
HDR_lockedOtherNonActive ==
    <<"l", "o", "c", "k", "e", "d", " ", "a", "n", "d", " ", "n", "o", "n", " ", "a", "c", "t",
      "i", "v", "e", " ", "o", "t", "h", "e", "r", " ", "n", "e", "t", "w", "o", "r", "k", " ",
      "p", "h", "o", "n", "e", " ", "a", "r", "e", " ", "l", "i", "k", "e", " ", "t", "h", "i",
      "s", " ", "w", "i", "t", "h", " ", "t", "h", "e", " ", "d", "e", "v", "i", "c", "e", " ",
      "d", "e", "t", "e", "t", "i", "l", "s", ",", "\n", "\n", "*", "L", "O", "C", "K", "E",
      "D", " ", "N", " ", "N", "O", "N", " ", "A", "C", "T", "I", "V", "E", "*", "\n", "\n">>
HDR_lockedOtherActive ==
    <<"*", "L", "O", "C", "K", "E", "D", " ", "N", " ", "A", "C", "T", "I", "V", "E", "*",
      "\n", "\n">>
HDR_unlockedNonActive ==
    <<"u", "n", "l", "o", "c", "k", "e", "d", " ", "a", "n", "d", " ", "n", "o", "n", " ", "a",
      "c", "t", "i", "v", "e", " ", "p", "h", "o", "n", "e", " ", "a", "r", "e", " ", "l", "i",
      "k", "e", " ", "t", "h", "i", "s", " ", "w", "i", "t", "h", " ", "t", "h", "e", " ", "d",
      "e", "v", "i", "c", "e", " ", "d", "e", "t", "e", "t", "i", "l", "s", ",", "\n", "\n",
      "U", "N", "L", "O", "C", "K", "E", "D", " ", "N", " ", "N", "O", "N", " ", "A", "C", "T",
      "I", "V", "E", "\n", "\n">>
HDR_unlockedActive ==
    <<"u", "n", "l", "o", "c", "k", "e", "d", " ", "a", "n", "d", " ", "a", "c", "t", "i", "v",
      "e", " ", "p", "h", "o", "n", "e", " ", "l", "i", "k", "e", " ", "t", "h", "i", "s", " ",
      "d", "e", "v", "i", "c", "e", " ", "d", "e", "t", "e", "t", "i", "l", "s", ",", "\n",
      "\n", "U", "N", "L", "O", "C", "K", "E", "D", " ", "N", " ", "A", "C", "T", "I", "V",
      "E", "\n", "\n">>
W_FAILED ==
    <<"F", "A", "I", "L", "E", "D">>

--------------------------------------------------------------------------
(* Bounds of the model, and the length limits the source states.          *)

\* segments of a generated document
MaxSegs == 2

\* devices of a generated export document
MaxExportDevices == 2

\* tokens of a generated bulk query
MaxTokens == 2

\* File objects handed to handleImageUpload over a run of the App
MaxImages == 2

\* disabled={inputImei.length < 15}
ManualInputMin == 15

--------------------------------------------------------------------------
(* JavaScript string primitives.                                          *)

DigitChars == <<"0", "1", "2", "3", "4", "5", "6", "7", "8", "9">>

UpperLetters ==
    <<"A", "B", "C", "D", "E", "F", "G", "H", "I", "J", "K", "L", "M",
      "N", "O", "P", "Q", "R", "S", "T", "U", "V", "W", "X", "Y", "Z">>

LowerLetters ==
    <<"a", "b", "c", "d", "e", "f", "g", "h", "i", "j", "k", "l", "m",
      "n", "o", "p", "q", "r", "s", "t", "u", "v", "w", "x", "y", "z">>

Range(f) == {f[i] : i \in DOMAIN f}

SetMin(S) == CHOOSE m \in S : \A n \in S : m <= n

DigitSet == Range(DigitChars)

UpperSet == Range(UpperLetters)

LowerSet == Range(LowerLetters)

WordCharSet == DigitSet \cup UpperSet \cup LowerSet \cup {"_"}

SpaceSet == {" ", "\n", "\t", "\r"}

\* \d of a regular expression
IsDigit(c) == c \in DigitSet

\* \w of a regular expression
IsWordChar(c) == c \in WordCharSet

\* the white space String.prototype.trim removes
IsSpace(c) == c \in SpaceSet

\* the lower-case and the upper-case form of each letter
LowerOf == [c \in UpperSet |-> LowerLetters[CHOOSE i \in DOMAIN UpperLetters : UpperLetters[i] = c]]

UpperOf == [c \in LowerSet |-> UpperLetters[CHOOSE i \in DOMAIN LowerLetters : LowerLetters[i] = c]]

toLowerCase(s) == [i \in DOMAIN s |-> IF s[i] \in UpperSet THEN LowerOf[s[i]] ELSE s[i]]

toUpperCase(s) == [i \in DOMAIN s |-> IF s[i] \in LowerSet THEN UpperOf[s[i]] ELSE s[i]]

\* p occurs in s at position i
MatchesAt(s, p, i) ==
    /\ i >= 1
    /\ i + Len(p) - 1 <= Len(s)
    /\ (Len(p) = 0 \/ s[i] = p[1])
    /\ \A k \in 2..Len(p) : s[i + k - 1] = p[k]

\* s.indexOf(p, from - 1) + 1
indexOf(s, p, from) ==
    LET hits == {i \in from..(Len(s) - Len(p) + 1) : MatchesAt(s, p, i)}
    IN  IF hits = {} THEN 0 ELSE SetMin(hits)

includes(s, p) == indexOf(s, p, 1) # 0

\* s.substring(from - 1, to - 1): the characters from..to-1
substring(s, from, to) == SubSeq(s, from, to - 1)

RECURSIVE split(_, _)
split(s, sep) ==
    LET i == indexOf(s, sep, 1)
    IN  IF i = 0 THEN <<s>>
        ELSE <<SubSeq(s, 1, i - 1)>> \o split(SubSeq(s, i + Len(sep), Len(s)), sep)

RECURSIVE replaceAll(_, _, _)
\* s.replace(/p/g, r) for a literal p
replaceAll(s, p, r) ==
    LET i == indexOf(s, p, 1)
    IN  IF i = 0 THEN s
        ELSE SubSeq(s, 1, i - 1) \o r \o replaceAll(SubSeq(s, i + Len(p), Len(s)), p, r)

RECURSIVE stripTags(_)
\* s.replace(/<[^>]+>/g, ''): a '<', at least one character other than '>', then '>'
stripTags(s) ==
    LET opens == {i \in 1..Len(s) : s[i] = "<" /\ indexOf(s, <<">">>, i + 1) >= i + 2}
    IN  IF opens = {} THEN s
        ELSE LET i == SetMin(opens)
                 j == indexOf(s, <<">">>, i + 1)
             IN  SubSeq(s, 1, i - 1) \o stripTags(SubSeq(s, j + 1, Len(s)))

RECURSIVE firstNonSpace(_, _)
firstNonSpace(s, i) ==
    IF i > Len(s) THEN i ELSE IF IsSpace(s[i]) THEN firstNonSpace(s, i + 1) ELSE i

RECURSIVE lastNonSpace(_, _)
lastNonSpace(s, i) ==
    IF i < 1 THEN i ELSE IF IsSpace(s[i]) THEN lastNonSpace(s, i - 1) ELSE i

trim(s) == SubSeq(s, firstNonSpace(s, 1), lastNonSpace(s, Len(s)))

RECURSIVE toDecimal(_)
\* the decimal digits of a natural number, as template literals print it
toDecimal(n) ==
    IF n < 10 THEN <<DigitChars[n + 1]>>
    ELSE toDecimal(n \div 10) \o <<DigitChars[(n % 10) + 1]>>

RECURSIVE join(_, _)
\* list.join(sep)
join(list, sep) ==
    IF Len(list) = 0 THEN <<>>
    ELSE IF Len(list) = 1 THEN list[1]
    ELSE list[1] \o sep \o join(Tail(list), sep)

--------------------------------------------------------------------------
(* parseSickwHtml                                                         *)

\* chunk.match(/^(\d{15})/): the first ImeiDigits characters when all are digits, else ''
ImeiDigits == 15

\* the match with its run one digit short: /^(\d{14}.)/
imeiMatch_oneDigitShort(chunk) ==
    IF Len(chunk) >= ImeiDigits /\ \A k \in 1..(ImeiDigits - 1) : IsDigit(chunk[k])
    THEN SubSeq(chunk, 1, ImeiDigits)
    ELSE <<>>

imeiMatch(chunk) ==
    IF Len(chunk) >= ImeiDigits /\ \A k \in 1..ImeiDigits : IsDigit(chunk[k])
    THEN SubSeq(chunk, 1, ImeiDigits)
    ELSE <<>>

\* chunk.match(/<pre>([\s\S]*?)<\/pre>/): <<found, group 1>>
preMatch(chunk) ==
    LET i == indexOf(chunk, PRE_OPEN, 1)
        j == IF i = 0 THEN 0 ELSE indexOf(chunk, PRE_CLOSE, i + Len(PRE_OPEN))
    IN  IF j = 0 THEN <<FALSE, <<>>>>
        ELSE <<TRUE, SubSeq(chunk, i + Len(PRE_OPEN), j - 1)>>

\* where the value of a field ends: the next '<br', else the next newline, else the end
valueEnd(preContent, start) ==
    LET br == indexOf(preContent, BR_TAG, start)
        nl == indexOf(preContent, NEWLINE, start)
    IN  IF br # 0 THEN br
        ELSE IF nl # 0 THEN nl
        ELSE Len(preContent) + 1

getValue(preContent, key) ==
    LET searchKey == key \o <<":">>
        idx == indexOf(preContent, searchKey, 1)
        start == idx + Len(searchKey)
        rawValue == substring(preContent, start, valueEnd(preContent, start))
    IN  IF idx = 0 THEN <<>>
        ELSE trim(replaceAll(stripTags(rawValue), NBSP_ENTITY, <<" ">>))

\* the chain with the carrier names tested before the unlocked test
classifyGroup_carrierFirst(carrierRaw, simLock) ==
    LET c == toLowerCase(carrierRaw)
        s == toLowerCase(simLock)
    IN  IF includes(c, W_t_mobile) \/ includes(c, W_sprint) THEN "T-Mobile/Sprint"
        ELSE IF includes(c, W_at_t) THEN "AT&T"
        ELSE IF includes(c, W_verizon) THEN "Verizon"
        ELSE IF includes(s, W_unlocked) \/ includes(c, W_unlock) \/ includes(c, W_open_policy)
            THEN "Unlocked"
        ELSE "Other"

\* the carrier group chain, index.tsx:87-99
classifyGroup(carrierRaw, simLock) ==
    LET c == toLowerCase(carrierRaw)
        s == toLowerCase(simLock)
    IN  IF includes(s, W_unlocked) \/ includes(c, W_unlock) \/ includes(c, W_open_policy)
            THEN "Unlocked"
        ELSE IF includes(c, W_t_mobile) \/ includes(c, W_sprint) THEN "T-Mobile/Sprint"
        ELSE IF includes(c, W_at_t) THEN "AT&T"
        ELSE IF includes(c, W_verizon) THEN "Verizon"
        ELSE "Other"

\* the year test without its word boundaries: /(19|20)\d{2}/
hasYear_noBoundary(s) ==
    \E i \in 1..(Len(s) - 3) :
        /\ \/ (s[i] = "1" /\ s[i + 1] = "9")
           \/ (s[i] = "2" /\ s[i + 1] = "0")
        /\ IsDigit(s[i + 2])
        /\ IsDigit(s[i + 3])

\* /\b(19|20)\d{2}\b/.test(s)
hasYear(s) ==
    \E i \in 1..(Len(s) - 3) :
        /\ \/ (s[i] = "1" /\ s[i + 1] = "9")
           \/ (s[i] = "2" /\ s[i + 1] = "0")
        /\ IsDigit(s[i + 2])
        /\ IsDigit(s[i + 3])
        /\ (i = 1 \/ ~IsWordChar(s[i - 1]))
        /\ (i + 3 = Len(s) \/ ~IsWordChar(s[i + 4]))

\* the activation chain, index.tsx:101-117
classifyActive(activationStatus, estPurchaseDate) ==
    IF activationStatus # <<>>
    THEN ~includes(toLowerCase(activationStatus), W_not_activated)
    ELSE IF estPurchaseDate # <<>>
         THEN IF includes(toLowerCase(estPurchaseDate), W_not_activated) THEN FALSE
              ELSE hasYear(estPurchaseDate)
         ELSE FALSE

\* the id without the chunk index
deviceId_noIndex(imei, i) == imei

\* the id template `${imei}-${i}`
deviceId(imei, i) == imei \o <<"-">> \o toDecimal(i)

\* the Device pushed for chunk i (chunks[0] is the text before the first marker)
makeDevice(imei, i, preContent) ==
    LET carrierRaw == getValue(preContent, KEY_LockedCarrier)
        simLock == getValue(preContent, KEY_SimLockStatus)
        estPurchaseDate == getValue(preContent, KEY_EstimatedPurchaseDate)
        activationStatus == getValue(preContent, KEY_ActivationStatus)
    IN  [id |-> deviceId(imei, i),
         imei |-> imei,
         imei2 |-> getValue(preContent, KEY_IMEI2),
         modelDesc |-> getValue(preContent, KEY_ModelDescription),
         serial |-> getValue(preContent, KEY_SerialNumber),
         warrantyStatus |-> getValue(preContent, KEY_WarrantyStatus),
         icloudLock |-> toUpperCase(getValue(preContent, KEY_iCloudLock)),
         carrier |-> carrierRaw,
         simLock |-> simLock,
         estPurchaseDate |-> estPurchaseDate,
         activationStatus |-> activationStatus,
         rawText |-> preContent,
         group |-> classifyGroup(carrierRaw, simLock),
         isActive |-> classifyActive(activationStatus, estPurchaseDate)]

\* one turn of the for loop: the devices chunk i (0-based index into chunks) adds
chunkDevices(chunk, i) ==
    LET imei == imeiMatch(chunk)
        pre == preMatch(chunk)
    IN  IF imei = <<>> THEN <<>>
        ELSE IF ~pre[1] THEN <<>>
        ELSE <<makeDevice(imei, i, pre[2])>>

RECURSIVE parseChunks(_, _)
\* the loop from chunk i on; chunks is the split's result, chunks[i + 1] is chunks[i] in JS
parseChunks(chunks, i) ==
    IF i >= Len(chunks) THEN <<>>
    ELSE chunkDevices(chunks[i + 1], i) \o parseChunks(chunks, i + 1)

parseSickwHtml(html) == parseChunks(split(html, IMEI_MARKER), 1)

--------------------------------------------------------------------------
(* generateExportText                                                     *)

cleanModel(name) == trim(replaceAll(name, W_USA, <<>>))

\* a list whose device blocks are joined with an empty line between them
formatList_blankLineBetween(devs) ==
    join([k \in DOMAIN devs |->
            cleanModel(devs[k].modelDesc) \o NEWLINE \o devs[k].imei \o NEWLINE \o separator],
         NEWLINE \o NEWLINE)

\* devs.map(d => `${cleanModel(d.modelDesc)}\n${d.imei}\n${separator}`).join('\n')
formatList(devs) ==
    join([k \in DOMAIN devs |->
            cleanModel(devs[k].modelDesc) \o NEWLINE \o devs[k].imei \o NEWLINE \o separator],
         NEWLINE)

\* the seven filter predicates, index.tsx:149-179
isIcloud(d) == d.icloudLock = W_ON

isTmobileNonActive(d) == d.icloudLock # W_ON /\ d.group = "T-Mobile/Sprint" /\ ~d.isActive

isTmobileActive(d) == d.icloudLock # W_ON /\ d.group = "T-Mobile/Sprint" /\ d.isActive

\* the filter without its d.group !== 'Unlocked' test
isLockedOtherNonActive_noUnlockedTest(d) ==
    d.icloudLock # W_ON /\ d.group # "T-Mobile/Sprint" /\ ~d.isActive

isLockedOtherNonActive(d) ==
    d.icloudLock # W_ON /\ d.group # "T-Mobile/Sprint" /\ d.group # "Unlocked" /\ ~d.isActive

isLockedOtherActive(d) ==
    d.icloudLock # W_ON /\ d.group # "T-Mobile/Sprint" /\ d.group # "Unlocked" /\ d.isActive

isUnlockedNonActive(d) == d.icloudLock # W_ON /\ d.group = "Unlocked" /\ ~d.isActive

isUnlockedActive(d) == d.icloudLock # W_ON /\ d.group = "Unlocked" /\ d.isActive

\* the filter of bucket b, the buckets numbered in the order the source builds them
inBucket(d, b) ==
    CASE b = 1 -> isIcloud(d)
      [] b = 2 -> isTmobileNonActive(d)
      [] b = 3 -> isTmobileActive(d)
      [] b = 4 -> isLockedOtherNonActive(d)
      [] b = 5 -> isLockedOtherActive(d)
      [] b = 6 -> isUnlockedNonActive(d)
      [] b = 7 -> isUnlockedActive(d)

\* devices.filter(...) of bucket b
bucket(devs, b) == SelectSeq(devs, LAMBDA d : inBucket(d, b))

bucketHeader(b) ==
    CASE b = 1 -> HDR_icloud
      [] b = 2 -> HDR_tmobileNonActive
      [] b = 3 -> HDR_tmobileActive
      [] b = 4 -> HDR_lockedOtherNonActive
      [] b = 5 -> HDR_lockedOtherActive
      [] b = 6 -> HDR_unlockedNonActive
      [] b = 7 -> HDR_unlockedActive

\* a section written whether or not its bucket holds a device
section_headerAlways(devs, b) ==
    bucketHeader(b) \o formatList(bucket(devs, b)) \o NEWLINE \o NEWLINE

\* one `if (list.length > 0) output += header + formatList(list) + "\n\n"`
section(devs, b) ==
    IF Len(bucket(devs, b)) > 0
    THEN bucketHeader(b) \o formatList(bucket(devs, b)) \o NEWLINE \o NEWLINE
    ELSE <<>>

generateExportText(devs) ==
    trim(section(devs, 1) \o section(devs, 2) \o section(devs, 3) \o section(devs, 4)
         \o section(devs, 5) \o section(devs, 6) \o section(devs, 7))

--------------------------------------------------------------------------
(* The bulk search of handleBulkSearch                                    *)

\* a character of the class [\n, \t]
IsQuerySep(c) == c \in {"\n", ",", " ", "\t"}

RECURSIVE splitQuery(_)
\* s.split(/[\n, \t]+/)
splitQuery(s) ==
    LET seps == {i \in 1..Len(s) : IsQuerySep(s[i])}
    IN  IF seps = {} THEN <<s>>
        ELSE LET i == SetMin(seps)
                 rest == {j \in (i + 1)..Len(s) : ~IsQuerySep(s[j])}
                 j == IF rest = {} THEN Len(s) + 1 ELSE SetMin(rest)
             IN  <<SubSeq(s, 1, i - 1)>> \o splitQuery(SubSeq(s, j, Len(s)))

\* .map(s => s.trim()).filter(Boolean)
rawQueries(query) ==
    LET parts == splitQuery(query)
        trimmed == [k \in DOMAIN parts |-> trim(parts[k])]
    IN  SelectSeq(trimmed, LAMBDA t : t # <<>>)

RECURSIVE dedupe_keepsLastOccurrence(_)
\* a removal of duplicates that keeps the last occurrence of a token
dedupe_keepsLastOccurrence(list) ==
    IF list = <<>> THEN <<>>
    ELSE LET back == dedupe_keepsLastOccurrence(Tail(list))
         IN  IF \E k \in DOMAIN back : back[k] = list[1] THEN back ELSE <<list[1]>> \o back

RECURSIVE dedupe(_)
\* Array.from(new Set(list)): first occurrences, in order
dedupe(list) ==
    IF list = <<>> THEN <<>>
    ELSE LET front == dedupe(SubSeq(list, 1, Len(list) - 1))
             last == list[Len(list)]
         IN  IF \E k \in DOMAIN front : front[k] = last THEN front ELSE Append(front, last)

uniqueQueries(query) == dedupe(rawQueries(query))

\* the match on the imei alone
matchesQuery_imeiOnly(d, q) == includes(d.imei, q)

\* d.imei.includes(q) || (d.serial && d.serial.includes(q))
matchesQuery(d, q) == includes(d.imei, q) \/ (d.serial # <<>> /\ includes(d.serial, q))

\* a set that moves a key it already holds behind the others (delete, then set)
mapSet_moveToEnd(map, key, value) ==
    Append(SelectSeq(map, LAMBDA e : e.key # key), [key |-> key, value |-> value])

\* a set that adds an entry whether or not the key is held (an array push)
mapSet_alwaysAppend(map, key, value) == Append(map, [key |-> key, value |-> value])

\* Map.prototype.set on a map kept as its entries in insertion order
mapSet(map, key, value) ==
    IF \E k \in DOMAIN map : map[k].key = key
    THEN [k \in DOMAIN map |-> IF map[k].key = key THEN [key |-> key, value |-> value] ELSE map[k]]
    ELSE Append(map, [key |-> key, value |-> value])

RECURSIVE mapSetAll(_, _)
\* matches.forEach(d => foundDevicesMap.set(d.id, d))
mapSetAll(map, matches) ==
    IF matches = <<>> THEN map
    ELSE mapSetAll(mapSet(map, matches[1].id, matches[1]), Tail(matches))

RECURSIVE searchLoop(_, _, _, _)
\* uniqueQueries.forEach(...): <<foundDevicesMap, missing>> after the tokens from k on
searchLoop(devs, queries, found, missing) ==
    IF queries = <<>> THEN <<found, missing>>
    ELSE LET q == queries[1]
             matches == SelectSeq(devs, LAMBDA d : matchesQuery(d, q))
         IN  IF Len(matches) > 0
             THEN searchLoop(devs, Tail(queries), mapSetAll(found, matches), missing)
             ELSE searchLoop(devs, Tail(queries), found, Append(missing, q))

\* Array.from(foundDevicesMap.values())
mapValues(map) == [k \in DOMAIN map |-> map[k].value]

\* a search that adds its missing tokens to those already listed
bulkSearch_keepsOldMissing(devs, query) ==
    LET r == searchLoop(devs, uniqueQueries(query), <<>>, <<>>)
    IN  <<mapValues(r[1]), notFoundQueries \o r[2]>>

\* <<results, missing>> of one search
bulkSearch(devs, query) ==
    LET r == searchLoop(devs, uniqueQueries(query), <<>>, <<>>)
    IN  <<mapValues(r[1]), r[2]>>

--------------------------------------------------------------------------
(* The App component: state and event handlers                            *)

\* null, and a non-null value x, of a nullable state
Null == <<>>

Some(x) == <<x>>

\* the text FileReader.readAsText yields for a file: the text before the first
\* marker, then each segment behind its marker
RECURSIVE segmentsText(_)
segmentsText(segs) ==
    IF segs = <<>> THEN <<>>
    ELSE IMEI_MARKER \o segs[1] \o segmentsText(Tail(segs))

fileText(f) == f.pre \o segmentsText(f.segs)

\* prev => (prev ? prev + '\n' : '') + text, index.tsx:581-584 and 598-601
appendLine(prev, text) == (IF prev # <<>> THEN prev \o NEWLINE ELSE <<>>) \o text

\* FileUpload.handleFile: the user picks file f; its text is read asynchronously
handleFile(f) ==
    /\ view = "upload"
    /\ pendingReads' = pendingReads \cup {f}
    /\ UNCHANGED <<devices, view, bulkQuery, searchResults, icloudAlertDevices,
                   notFoundQueries, exportText, showExportModal, isProcessingImages,
                   manualFixQueue, imgRun, nextFile>>

\* an upload that adds the parsed devices to those already loaded
handleUpload_appends(parsedDevices) ==
    /\ devices' = devices \o parsedDevices
    /\ view' = "dashboard"

\* setDevices(parsedDevices); setView('dashboard')
handleUpload(parsedDevices) ==
    /\ devices' = parsedDevices
    /\ view' = "dashboard"

\* reader.onload: parse the text and hand the devices to handleUpload
readerOnload(f) ==
    /\ f \in pendingReads
    /\ pendingReads' = pendingReads \ {f}
    /\ handleUpload(parseSickwHtml(fileText(f)))
    /\ UNCHANGED <<bulkQuery, searchResults, icloudAlertDevices, notFoundQueries,
                   exportText, showExportModal, isProcessingImages, manualFixQueue,
                   imgRun, nextFile>>

\* the header's setView('upload')
showUploadView ==
    /\ view = "dashboard"
    /\ view' = "upload"
    /\ UNCHANGED <<devices, bulkQuery, searchResults, icloudAlertDevices, notFoundQueries,
                   exportText, showExportModal, isProcessingImages, manualFixQueue,
                   pendingReads, imgRun, nextFile>>

\* the textarea's onChange
typeBulkQuery(q) ==
    /\ view = "dashboard"
    /\ bulkQuery' = q
    /\ UNCHANGED <<devices, view, searchResults, icloudAlertDevices, notFoundQueries,
                   exportText, showExportModal, isProcessingImages, manualFixQueue,
                   pendingReads, imgRun, nextFile>>

\* results.filter(d => d.icloudLock === "ON")
lockedOf(results) == SelectSeq(results, LAMBDA d : d.icloudLock = W_ON)

handleBulkSearch ==
    /\ view = "dashboard"
    /\ IF trim(bulkQuery) = <<>>
       THEN /\ searchResults' = Null
            /\ notFoundQueries' = <<>>
            /\ icloudAlertDevices' = <<>>
       ELSE LET r == bulkSearch(devices, bulkQuery)
            IN  /\ searchResults' = Some(r[1])
                /\ notFoundQueries' = r[2]
                /\ icloudAlertDevices' =
                       IF Len(lockedOf(r[1])) > 0 THEN lockedOf(r[1]) ELSE icloudAlertDevices
    /\ UNCHANGED <<devices, view, bulkQuery, exportText, showExportModal,
                   isProcessingImages, manualFixQueue, pendingReads, imgRun, nextFile>>

clearSearch ==
    /\ view = "dashboard"
    /\ searchResults # Null
    /\ bulkQuery' = <<>>
    /\ searchResults' = Null
    /\ notFoundQueries' = <<>>
    /\ icloudAlertDevices' = <<>>
    /\ UNCHANGED <<devices, view, exportText, showExportModal, isProcessingImages,
                   manualFixQueue, pendingReads, imgRun, nextFile>>

handleExport ==
    /\ view = "dashboard"
    /\ exportText' = generateExportText(IF searchResults # Null THEN searchResults[1] ELSE devices)
    /\ showExportModal' = TRUE
    /\ UNCHANGED <<devices, view, bulkQuery, searchResults, icloudAlertDevices,
                   notFoundQueries, isProcessingImages, manualFixQueue, pendingReads,
                   imgRun, nextFile>>

\* the iCloud alert modal's onClose, index.tsx:879
closeIcloudAlert ==
    /\ view = "dashboard"
    /\ Len(icloudAlertDevices) > 0
    /\ icloudAlertDevices' = <<>>
    /\ UNCHANGED <<devices, view, bulkQuery, searchResults, notFoundQueries, exportText,
                   showExportModal, isProcessingImages, manualFixQueue, pendingReads,
                   imgRun, nextFile>>

\* the not-found modal's onClose
closeNotFound ==
    /\ view = "dashboard"
    /\ Len(notFoundQueries) > 0
    /\ notFoundQueries' = <<>>
    /\ UNCHANGED <<devices, view, bulkQuery, searchResults, icloudAlertDevices, exportText,
                   showExportModal, isProcessingImages, manualFixQueue, pendingReads,
                   imgRun, nextFile>>

\* the export modal's onClose
closeExportModal ==
    /\ view = "dashboard"
    /\ showExportModal
    /\ showExportModal' = FALSE
    /\ UNCHANGED <<devices, view, bulkQuery, searchResults, icloudAlertDevices,
                   notFoundQueries, exportText, isProcessingImages, manualFixQueue,
                   pendingReads, imgRun, nextFile>>

\* the files of a batch are File objects numbered as they are handed in
newFiles(n) == [k \in 1..n |-> nextFile + k]

\* handleImageUpload up to its first await.  The call keeps the `devices` of the
\* render it was created in.  setupOk = FALSE: new GoogleGenAI(...) throws.
handleImageUpload(n, setupOk) ==
    /\ view = "dashboard"
    /\ ~isProcessingImages
    /\ n >= 1
    /\ nextFile + n <= MaxImages
    /\ isProcessingImages' = TRUE
    /\ nextFile' = nextFile + n
    /\ imgRun' = IF setupOk
                 THEN Some([files |-> newFiles(n), devices |-> devices,
                            newImeis |-> <<>>, failed |-> <<>>])
                 ELSE imgRun
    /\ UNCHANGED <<devices, view, bulkQuery, searchResults, icloudAlertDevices,
                   notFoundQueries, exportText, showExportModal, manualFixQueue,
                   pendingReads>>

\* response.text?.trim() || "FAILED"
visionText(outcome) ==
    LET t == trim(outcome.text) IN IF t = <<>> THEN W_FAILED ELSE t

\* text.replace(/[^0-9]/g, '')
cleanText(text) == SelectSeq(text, IsDigit)

\* cleanText.length === 15
VisionImeiLength == 15

\* a FailedImage; suggestedImei <<>> stands for an absent field
failedImage(file, suggestedImei) == [file |-> file, suggestedImei |-> suggestedImei]

\* devices.some(d => d.imei === cleanText), on the devices the call holds
existsInHtml(run, imei) == \E k \in DOMAIN run.devices : run.devices[k].imei = imei

\* a loop body that forgets an answer that is not 15 digits long
processFile_dropsInvalidAnswer(run, file, outcome) ==
    IF outcome.throws
    THEN [run EXCEPT !.failed = Append(@, failedImage(file, <<>>))]
    ELSE LET digits == cleanText(visionText(outcome))
         IN  IF Len(digits) = VisionImeiLength
             THEN IF existsInHtml(run, digits)
                  THEN [run EXCEPT !.newImeis = Append(@, digits)]
                  ELSE [run EXCEPT !.failed = Append(@, failedImage(file, digits))]
             ELSE run

\* the body of the for loop for one file: the locals after it
processFile(run, file, outcome) ==
    IF outcome.throws
    THEN [run EXCEPT !.failed = Append(@, failedImage(file, <<>>))]
    ELSE LET digits == cleanText(visionText(outcome))
         IN  IF Len(digits) = VisionImeiLength
             THEN IF existsInHtml(run, digits)
                  THEN [run EXCEPT !.newImeis = Append(@, digits)]
                  ELSE [run EXCEPT !.failed = Append(@, failedImage(file, digits))]
             ELSE [run EXCEPT !.failed = Append(@, failedImage(file, <<>>))]

\* setManualFixQueue(prev => [...prev, ...failed])
enqueueFailed(prev, failed) == prev \o failed

\* the call resumes with the vision outcome of its next file; after the last file
\* it runs on to its end without another await
imageStep(outcome) ==
    /\ imgRun # Null
    /\ LET run == processFile(imgRun[1], Head(imgRun[1].files), outcome)
           rest == Tail(imgRun[1].files)
       IN  IF rest # <<>>
           THEN /\ imgRun' = Some([run EXCEPT !.files = rest])
                /\ UNCHANGED <<bulkQuery, manualFixQueue, isProcessingImages>>
           ELSE /\ imgRun' = Null
                /\ bulkQuery' = IF Len(run.newImeis) > 0
                                THEN appendLine(bulkQuery, join(run.newImeis, NEWLINE))
                                ELSE bulkQuery
                /\ manualFixQueue' = IF Len(run.failed) > 0
                                     THEN enqueueFailed(manualFixQueue, run.failed)
                                     ELSE manualFixQueue
                /\ isProcessingImages' = FALSE
    /\ UNCHANGED <<devices, view, searchResults, icloudAlertDevices, notFoundQueries,
                   exportText, showExportModal, pendingReads, nextFile>>

\* a removal of the last item instead of the first: prev.slice(0, -1)
dropHead_dropsLast(prev) == SubSeq(prev, 1, Len(prev) - 1)

\* prev => prev.slice(1)
dropHead(prev) == SubSeq(prev, 2, Len(prev))

\* ManualFixModal's "Add IMEI" (disabled while the input holds fewer than 15 characters)
handleManualFix(imei) ==
    /\ view = "dashboard"
    /\ Len(manualFixQueue) > 0
    /\ Len(imei) >= ManualInputMin
    /\ bulkQuery' = appendLine(bulkQuery, imei)
    /\ manualFixQueue' = dropHead(manualFixQueue)
    /\ UNCHANGED <<devices, view, searchResults, icloudAlertDevices, notFoundQueries,
                   exportText, showExportModal, isProcessingImages, pendingReads,
                   imgRun, nextFile>>

\* ManualFixModal's "Skip" and its close button
handleSkipFix ==
    /\ view = "dashboard"
    /\ Len(manualFixQueue) > 0
    /\ manualFixQueue' = dropHead(manualFixQueue)
    /\ UNCHANGED <<devices, view, bulkQuery, searchResults, icloudAlertDevices,
                   notFoundQueries, exportText, showExportModal, isProcessingImages,
                   pendingReads, imgRun, nextFile>>

--------------------------------------------------------------------------
(* Literals of the generated inputs                                       *)

IMEI_A ==
    <<"1", "1", "1", "1", "2", "2", "2", "2", "3", "3", "3", "3", "4", "4", "4">>
IMEI_B ==
    <<"5", "5", "5", "5", "6", "6", "6", "6", "7", "7", "7", "7", "8", "8", "8">>
IMEI_C ==
    <<"1", "1", "1", "1", "9", "9", "9", "9", "0", "0", "0", "0", "1", "2", "3">>
HEAD_14 ==
    <<"1", "1", "1", "1", "2", "2", "2", "2", "3", "3", "3", "3", "4", "4">>
HEAD_SPACE ==
    <<" ", "1", "1", "1", "1", "2", "2", "2", "2", "3", "3", "3", "3", "4", "4", "4">>
BODY_OK ==
    <<"<", "b", "r", ">", "<", "p", "r", "e", ">", "M", "o", "d", "e", "l", " ", "D", "e", "s",
      "c", "r", "i", "p", "t", "i", "o", "n", ":", " ", "i", "P", "h", "o", "n", "e", " ", "1",
      "2", "-", "U", "S", "A", "<", "b", "r", ">", "S", "e", "r", "i", "a", "l", " ", "N", "u",
      "m", "b", "e", "r", ":", " ", "F", "2", "L", "X", "Y", "7", "<", "b", "r", ">", "<", "/",
      "p", "r", "e", ">">>
BODY_NOPRE ==
    <<"<", "b", "r", ">", "M", "o", "d", "e", "l", " ", "D", "e", "s", "c", "r", "i", "p", "t",
      "i", "o", "n", ":", " ", "i", "P", "h", "o", "n", "e", " ", "1", "2", "<", "b", "r", ">">>
BODY_UNCLOSED ==
    <<"<", "b", "r", ">", "<", "p", "r", "e", ">", "M", "o", "d", "e", "l", " ", "D", "e", "s",
      "c", "r", "i", "p", "t", "i", "o", "n", ":", " ", "i", "P", "h", "o", "n", "e", " ", "1",
      "2", "<", "b", "r", ">">>
BODY_DIGIT ==
    <<"4", "<", "p", "r", "e", ">", "I", "M", "E", "I", "2", ":", " ", "1", "\n", "<", "/",
      "p", "r", "e", ">">>
NEAR_MARKER ==
    <<"<", "b", ">", "I", "M", "E", "I", ":", "<", "/", "b", ">">>
TXT_PreOpen ==
    <<"<", "b", "r", ">", "<", "p", "r", "e", ">", "M", "o", "d", "e", "l", " ", "D", "e", "s",
      "c", "r", "i", "p", "t", "i", "o", "n", ":", " ", "i", "P", "h", "o", "n", "e", " ", "1",
      "1", "<", "b", "r", ">">>
TXT_BR ==
    <<"<", "b", "r", ">">>
TXT_Colon ==
    <<":", " ">>
CARRIER_ATT ==
    <<"U", "S", " ", "A", "T", "&", "T", " ", "L", "o", "c", "k", "e", "d", " ", "P", "o", "l",
      "i", "c", "y">>
CARRIER_TMO ==
    <<"<", "b", ">", "T", "-", "M", "o", "b", "i", "l", "e", "<", "/", "b", ">", "&", "n", "b",
      "s", "p", ";", "U", "S", "A">>
CARRIER_SPRINT ==
    <<"S", "P", "R", "I", "N", "T">>
CARRIER_VZW_ATT ==
    <<"V", "e", "r", "i", "z", "o", "n", " ", "/", " ", "A", "T", "&", "T">>
CARRIER_VZW ==
    <<"U", "S", " ", "V", "e", "r", "i", "z", "o", "n">>
CARRIER_OPEN ==
    <<"U", "S", " ", "O", "p", "e", "n", " ", "P", "o", "l", "i", "c", "y">>
CARRIER_UNLOCK_ATT ==
    <<"U", "n", "l", "o", "c", "k", " ", "A", "T", "&", "T">>
CARRIER_OTHER ==
    <<"T", "r", "a", "c", "F", "o", "n", "e">>
SIM_LOCKED ==
    <<"L", "o", "c", "k", "e", "d">>
SIM_UNLOCKED ==
    <<"U", "n", "l", "o", "c", "k", "e", "d">>
SIM_UNLOCKED_UP ==
    <<"U", "N", "L", "O", "C", "K", "E", "D">>
DATE_ISO ==
    <<"2", "0", "2", "1", "-", "0", "3", "-", "0", "1">>
DATE_NOT ==
    <<"N", "o", "t", " ", "A", "c", "t", "i", "v", "a", "t", "e", "d">>
DATE_LONG ==
    <<"1", "2", "0", "2", "1", "3">>
DATE_GLUED ==
    <<"v", "2", "0", "2", "1">>
DATE_TEXT ==
    <<"M", "a", "r", " ", "1", "9", "9", "9">>
ACT_YES ==
    <<"A", "c", "t", "i", "v", "a", "t", "e", "d">>
ACT_NOT ==
    <<"N", "o", "t", " ", "A", "c", "t", "i", "v", "a", "t", "e", "d">>
ACT_NOT_UP ==
    <<"N", "O", "T", " ", "A", "C", "T", "I", "V", "A", "T", "E", "D", " ", "(", "2", "0", "2",
      "1", ")">>
ICLOUD_ON ==
    <<"O", "N">>
ICLOUD_OFF ==
    <<"O", "F", "F">>
ICLOUD_LOWER ==
    <<"o", "n">>
ICLOUD_TAGGED ==
    <<"<", "f", "o", "n", "t", " ", "c", "o", "l", "o", "r", "=", "\"", "r", "e", "d", "\"",
      ">", "O", "n", "<", "/", "f", "o", "n", "t", ">">>
ICLOUD_OTHER ==
    <<"U", "n", "k", "n", "o", "w", "n">>
SERIAL_A ==
    <<"F", "2", "L", "X", "Y", "7">>
SERIAL_B ==
    <<"c", "3", "9", "a", "b", "1">>
TOK_1111 ==
    <<"1", "1", "1", "1">>
TOK_5555 ==
    <<"5", "5", "5", "5">>
TOK_2222 ==
    <<"2", "2", "2", "2">>
TOK_9876 ==
    <<"9", "8", "7", "6">>
TOK_F2L ==
    <<"F", "2", "L">>
TOK_f2l ==
    <<"f", "2", "l">>
QUERY_PADDED ==
    <<" ", "\t", "9", "8", "7", "6", ",", ",", "f", "2", "l", "\n", "9", "8", "7", "6", "\t">>
QUERY_CRLF ==
    <<"1", "1", "1", "1", "\r", "\n", "5", "5", "5", "5">>
QUERY_SEPARATORS ==
    <<",", "\n", " ", "\t", ",">>
VISION_C ==
    <<"1", "1", "1", "1", "9", "9", "9", "9", "0", "0", "0", "0", "1", "2", "3">>
VISION_B_MARKDOWN ==
    <<"*", "*", "5", "5", "5", "5", " ", "6", "6", "6", "6", " ", "7", "7", "7", "7", " ", "8",
      "8", "8", "*", "*", "\n">>
MANUAL_D ==
    <<"9", "9", "9", "9", "0", "0", "0", "0", "1", "1", "1", "1", "2", "2", "2">>

--------------------------------------------------------------------------
(* Inputs                                                                 *)

\* all sequences over S of length at most n
RECURSIVE SeqsUpTo(_, _)
SeqsUpTo(S, n) ==
    IF n = 0 THEN {<<>>}
    ELSE LET shorter == SeqsUpTo(S, n - 1)
         IN  shorter \cup {Append(s, x) : s \in {t \in shorter : Len(t) = n - 1}, x \in S}

\* a label line of a <pre> block; an absent value leaves the line out
fieldLine(key, value) ==
    IF value = <<>> THEN <<>> ELSE key \o TXT_Colon \o value \o TXT_BR

\* documents that vary the start of a segment and its <pre> block
StructSegments ==
    {head \o body : head \in {IMEI_A, IMEI_B, HEAD_14, HEAD_SPACE},
                    body \in {BODY_OK, BODY_NOPRE, BODY_UNCLOSED, BODY_DIGIT}}

StructFiles ==
    {[pre |-> pre, segs |-> segs] :
        pre \in {<<>>, NEAR_MARKER \o IMEI_B \o BODY_OK},
        segs \in SeqsUpTo(StructSegments, MaxSegs)}

\* documents of one device that vary the fields the classifier reads
CarrierValues ==
    {<<>>, CARRIER_ATT, CARRIER_TMO, CARRIER_SPRINT, CARRIER_VZW_ATT, CARRIER_VZW,
     CARRIER_OPEN, CARRIER_UNLOCK_ATT, CARRIER_OTHER}

SimLockValues == {<<>>, SIM_LOCKED, SIM_UNLOCKED, SIM_UNLOCKED_UP}

DateValues == {<<>>, DATE_ISO, DATE_NOT, DATE_LONG, DATE_GLUED, DATE_TEXT}

ActivationValues == {<<>>, ACT_YES, ACT_NOT, ACT_NOT_UP}

deviceSegment(imei, serial, icloud, carrier, simLock, date, activation) ==
    imei \o TXT_PreOpen
         \o fieldLine(KEY_SerialNumber, serial)
         \o fieldLine(KEY_iCloudLock, icloud)
         \o fieldLine(KEY_LockedCarrier, carrier)
         \o fieldLine(KEY_SimLockStatus, simLock)
         \o fieldLine(KEY_EstimatedPurchaseDate, date)
         \o fieldLine(KEY_ActivationStatus, activation)
         \o PRE_CLOSE

FieldFiles ==
    {[pre |-> <<>>,
      segs |-> <<deviceSegment(IMEI_A, <<>>, ICLOUD_OFF, c, s, d, a)>>] :
        c \in CarrierValues, s \in SimLockValues, d \in DateValues, a \in ActivationValues}

\* documents whose devices fall into the export's buckets
ExportProfiles ==
    {[icloud |-> ICLOUD_ON, carrier |-> CARRIER_TMO, activation |-> ACT_NOT],
     [icloud |-> ICLOUD_ON, carrier |-> CARRIER_OPEN, activation |-> ACT_YES]}
    \cup {[icloud |-> ICLOUD_OFF, carrier |-> c, activation |-> a] :
            c \in {CARRIER_TMO, CARRIER_ATT, CARRIER_OPEN}, a \in {ACT_YES, ACT_NOT}}

ExportImeis == <<IMEI_A, IMEI_B, IMEI_C, IMEI_A>>

ExportFiles ==
    {[pre |-> <<>>,
      segs |-> [k \in DOMAIN ps |->
                  deviceSegment(ExportImeis[k], <<>>, ps[k].icloud, ps[k].carrier,
                                <<>>, <<>>, ps[k].activation)]] :
        ps \in SeqsUpTo(ExportProfiles, MaxExportDevices)}

\* documents of one device that vary the text of the iCloud Lock field
IcloudValues == {<<>>, ICLOUD_ON, ICLOUD_OFF, ICLOUD_LOWER, ICLOUD_TAGGED, ICLOUD_OTHER}

IcloudFiles ==
    {[pre |-> <<>>,
      segs |-> <<deviceSegment(IMEI_A, <<>>, v, <<>>, <<>>, <<>>, <<>>)>>] : v \in IcloudValues}

\* documents of one device whose two label lines end with a break tag, with a
\* newline, or with the end of the block
LineEnds == {TXT_BR, NEWLINE, <<>>}

lineEndSegment(end1, end2) ==
    IMEI_A \o PRE_OPEN
           \o KEY_SerialNumber \o TXT_Colon \o SERIAL_A \o end1
           \o KEY_SimLockStatus \o TXT_Colon \o SIM_LOCKED \o end2
           \o PRE_CLOSE

LineEndFiles ==
    {[pre |-> <<>>, segs |-> <<lineEndSegment(end1, end2)>>] :
        end1 \in {TXT_BR, NEWLINE}, end2 \in LineEnds}

ParseFiles == StructFiles \cup FieldFiles \cup ExportFiles \cup IcloudFiles \cup LineEndFiles

\* registries and queries of the bulk search
SEG_A == deviceSegment(IMEI_A, SERIAL_A, ICLOUD_OFF, CARRIER_ATT, <<>>, <<>>, ACT_YES)

SEG_B == deviceSegment(IMEI_B, SERIAL_B, ICLOUD_OFF, CARRIER_TMO, <<>>, <<>>, ACT_NOT)

SEG_C == deviceSegment(IMEI_C, <<>>, ICLOUD_ON, CARRIER_OPEN, <<>>, <<>>, ACT_YES)

SearchFiles ==
    {[pre |-> <<>>, segs |-> segs] :
        segs \in {<<SEG_A, SEG_B, SEG_C>>, <<SEG_B, SEG_A>>, <<SEG_C, SEG_A, SEG_A>>,
                  <<SEG_B>>, <<>>}}

SearchTokens == {TOK_1111, TOK_5555, TOK_2222, TOK_9876, TOK_F2L, TOK_f2l}

\* the tokens typed one after the other: a comma after the odd ones, a newline
\* and a space after the even ones
RECURSIVE queryText(_, _)
queryText(tokens, k) ==
    IF k > Len(tokens) THEN <<>>
    ELSE tokens[k] \o (IF k = Len(tokens) THEN <<>>
                       ELSE IF k % 2 = 1 THEN <<",">> ELSE <<"\n", " ">>)
                   \o queryText(tokens, k + 1)

SearchQueries == {queryText(ts, 1) : ts \in SeqsUpTo(SearchTokens, MaxTokens)}

\* queries with separators before, behind and in runs between the tokens
EdgeQueries == {QUERY_PADDED, QUERY_CRLF, QUERY_SEPARATORS}

\* what the App run is given
AppFiles ==
    {[pre |-> <<>>, segs |-> <<SEG_C, SEG_A>>], [pre |-> <<>>, segs |-> <<SEG_B>>]}

AppQueries == {TOK_1111, TOK_2222}

\* what the vision call does for one image: it throws, or answers with a text
VisionOutcomes ==
    {[throws |-> TRUE, text |-> <<>>],
     [throws |-> FALSE, text |-> W_FAILED],
     [throws |-> FALSE, text |-> VISION_C],
     [throws |-> FALSE, text |-> VISION_B_MARKDOWN]}

ManualInputs == {MANUAL_D}

--------------------------------------------------------------------------
(* Specifications                                                         *)

Init ==
    /\ devices = <<>>
    /\ view = "upload"
    /\ bulkQuery = <<>>
    /\ searchResults = Null
    /\ icloudAlertDevices = <<>>
    /\ notFoundQueries = <<>>
    /\ exportText = <<>>
    /\ showExportModal = FALSE
    /\ isProcessingImages = FALSE
    /\ manualFixQueue = <<>>
    /\ pendingReads = {}
    /\ imgRun = Null
    /\ nextFile = 0

Next ==
    \/ \E f \in AppFiles : handleFile(f)
    \/ \E f \in pendingReads : readerOnload(f)
    \/ showUploadView
    \/ \E q \in AppQueries : typeBulkQuery(q)
    \/ handleBulkSearch
    \/ clearSearch
    \/ handleExport
    \/ closeIcloudAlert
    \/ closeNotFound
    \/ closeExportModal
    \/ \E n \in 1..MaxImages, setupOk \in BOOLEAN : handleImageUpload(n, setupOk)
    \/ \E o \in VisionOutcomes : imageStep(o)
    \/ \E imei \in ManualInputs : handleManualFix(imei)
    \/ handleSkipFix

\* the App from its mount on
Spec == Init /\ [][Next]_vars

\* the steps of the App that load documents, fill the bulk query box, run image
\* batches and resolve the manual-fix queue
NextImages ==
    \/ \E f \in AppFiles : handleFile(f)
    \/ \E f \in pendingReads : readerOnload(f)
    \/ showUploadView
    \/ \E q \in AppQueries : typeBulkQuery(q)
    \/ \E n \in 1..MaxImages, setupOk \in BOOLEAN : handleImageUpload(n, setupOk)
    \/ \E o \in VisionOutcomes : imageStep(o)
    \/ \E imei \in ManualInputs : handleManualFix(imei)
    \/ handleSkipFix

\* the App from its mount on, the user never searching or exporting
SpecImages == Init /\ [][NextImages]_vars

\* the same, every awaited vision call of a running batch settling in the end:
\* it returns or it throws, and the call resumes
SpecImagesFair == SpecImages /\ WF_vars(\E o \in VisionOutcomes : imageStep(o))

\* every step of the App, the user typing one query and handing in one batch of
\* images, each of which the vision call reads as the same imei: the call accepts
\* it when the Registry it holds has a device with that imei, else the image fails
NextApp ==
    \/ \E f \in AppFiles : handleFile(f)
    \/ \E f \in pendingReads : readerOnload(f)
    \/ showUploadView
    \/ typeBulkQuery(TOK_1111)
    \/ handleBulkSearch
    \/ clearSearch
    \/ handleExport
    \/ closeIcloudAlert
    \/ closeNotFound
    \/ closeExportModal
    \/ \E setupOk \in BOOLEAN : handleImageUpload(MaxImages, setupOk)
    \/ \E o \in {v \in VisionOutcomes : v.text = VISION_C} : imageStep(o)
    \/ \E imei \in ManualInputs : handleManualFix(imei)
    \/ handleSkipFix

\* the App from its mount on, with those inputs
SpecApp == Init /\ [][NextApp]_vars

\* the App in the upload view, the user having picked one document
InitParse ==
    /\ devices = <<>>
    /\ view = "upload"
    /\ bulkQuery = <<>>
    /\ searchResults = Null
    /\ icloudAlertDevices = <<>>
    /\ notFoundQueries = <<>>
    /\ exportText = <<>>
    /\ showExportModal = FALSE
    /\ isProcessingImages = FALSE
    /\ manualFixQueue = <<>>
    /\ pendingReads \in {{f} : f \in ParseFiles}
    /\ imgRun = Null
    /\ nextFile = 0

NextParse ==
    \/ \E f \in pendingReads : readerOnload(f)
    \/ handleExport

\* one document read, parsed and exported
SpecParse == InitParse /\ [][NextParse]_vars

\* the App in the dashboard view, a document loaded and a query typed
InitSearch ==
    /\ \E f \in SearchFiles : devices = parseSickwHtml(fileText(f))
    /\ view = "dashboard"
    /\ bulkQuery \in SearchQueries \cup EdgeQueries
    /\ searchResults = Null
    /\ icloudAlertDevices = <<>>
    /\ notFoundQueries = <<>>
    /\ exportText = <<>>
    /\ showExportModal = FALSE
    /\ isProcessingImages = FALSE
    /\ manualFixQueue = <<>>
    /\ pendingReads = {}
    /\ imgRun = Null
    /\ nextFile = 0

NextSearch == handleBulkSearch

\* one search of a loaded document
SpecSearch == InitSearch /\ [][NextSearch]_vars

--------------------------------------------------------------------------
(* Properties of parseSickwHtml and generateExportText, under SpecParse   *)

\* the step is the onload of the read of file f
IsOnloadOf(f) == f \in pendingReads /\ f \notin pendingReads'

StartsWithImei(seg) == Len(seg) >= 15 /\ \A k \in 1..15 : seg[k] \in DigitSet

HasPreBlock(seg) ==
    \E i \in 1..Len(seg) :
        /\ MatchesAt(seg, PRE_OPEN, i)
        /\ \E j \in (i + Len(PRE_OPEN))..Len(seg) : MatchesAt(seg, PRE_CLOSE, j)

\* the positions of the segments of f that start with 15 digits and hold a
\* <pre>...</pre> block, in document order
GoodSegments(f) ==
    SelectSeq([k \in 1..Len(f.segs) |-> k],
              LAMBDA k : StartsWithImei(f.segs[k]) /\ HasPreBlock(f.segs[k]))

\* C1: every device parseSickwHtml returns has an imei of exactly 15 decimal
\* digits, and the devices are exactly those of the segments that start with 15
\* digits and hold a <pre>...</pre> block, one each, in document order: any other
\* segment, and a text with a malformed marker, contributes no device.
C1_ImeiOrNoDevice ==
    [][\A f \in pendingReads : IsOnloadOf(f) =>
          LET good == GoodSegments(f)
          IN  /\ Len(devices') = Len(good)
              /\ \A k \in 1..Len(good) :
                    /\ Len(devices'[k].imei) = 15
                    /\ \A n \in 1..15 : devices'[k].imei[n] \in DigitSet
                    /\ devices'[k].imei = SubSeq(f.segs[good[k]], 1, 15)]_vars

\* C1 witness: a document whose first segment was dropped and whose second
\* segment gave the only device
C1_Witness ==
    /\ pendingReads = {}
    /\ Len(devices) = 1
    /\ devices[1].id = IMEI_B \o <<"-", "2">>

\* C8: the devices of one parse have pairwise different ids, and the id of a
\* device is its imei, '-' and the 1-based position of its segment.
C8_UniqueIds ==
    [][\A f \in pendingReads : IsOnloadOf(f) =>
          LET good == GoodSegments(f)
          IN  /\ \A a, b \in 1..Len(devices') : a # b => devices'[a].id # devices'[b].id
              /\ \A k \in 1..Len(devices') :
                    k <= Len(good) =>
                        devices'[k].id = devices'[k].imei \o <<"-", DigitChars[good[k] + 1]>>]_vars

\* C8 witness: two devices of one document with the same imei
C8_Witness ==
    /\ Len(devices) >= 2
    /\ devices[1].imei = devices[2].imei
    /\ devices[1].id # devices[2].id

\* C5: the carrier group of a device is one of the five groups, chosen by the
\* first rule that matches its sim-lock and carrier texts, lower-cased: the
\* unlocked test, then T-Mobile or Sprint, then AT&T, then Verizon, else Other.
C5_CarrierGroup ==
    \A k \in DOMAIN devices :
        LET d == devices[k]
            c == toLowerCase(d.carrier)
            s == toLowerCase(d.simLock)
            unlocked == includes(s, W_unlocked) \/ includes(c, W_unlock) \/ includes(c, W_open_policy)
            tmobile == includes(c, W_t_mobile) \/ includes(c, W_sprint)
            att == includes(c, W_at_t)
            verizon == includes(c, W_verizon)
        IN  /\ d.group \in {"Unlocked", "AT&T", "T-Mobile/Sprint", "Verizon", "Other"}
            /\ unlocked => d.group = "Unlocked"
            /\ (~unlocked /\ tmobile) => d.group = "T-Mobile/Sprint"
            /\ (~unlocked /\ ~tmobile /\ att) => d.group = "AT&T"
            /\ (~unlocked /\ ~tmobile /\ ~att /\ verizon) => d.group = "Verizon"
            /\ (~unlocked /\ ~tmobile /\ ~att /\ ~verizon) => d.group = "Other"
            /\ (d.simLock \in {SIM_UNLOCKED, SIM_UNLOCKED_UP}) => d.group = "Unlocked"
            /\ (d.simLock \in {<<>>, SIM_LOCKED} /\ d.carrier = CARRIER_SPRINT)
                   => d.group = "T-Mobile/Sprint"
            /\ (d.simLock \in {<<>>, SIM_LOCKED} /\ d.carrier = CARRIER_VZW_ATT)
                   => d.group = "AT&T"

\* C5 witness: a device whose sim-lock status is 'Unlocked' and whose carrier
\* names AT&T, classified Unlocked
C5_Witness ==
    \E k \in DOMAIN devices :
        /\ devices[k].simLock = SIM_UNLOCKED
        /\ devices[k].carrier = CARRIER_ATT
        /\ devices[k].group = "Unlocked"

\* C6: isActive follows the activation status whenever it is not empty (false
\* when it says 'not activated' in any case, else true) whatever the purchase
\* date; with no activation status it is true exactly when the purchase date
\* does not say 'not activated' and holds a year 19xx or 20xx standing as a
\* word of its own.  The texts are those of the generated documents.
C6_IsActive ==
    \A k \in DOMAIN devices :
        LET d == devices[k]
        IN  /\ d.activationStatus \in ActivationValues
            /\ d.estPurchaseDate \in DateValues
            /\ d.activationStatus # <<>> =>
                   (d.isActive <=> d.activationStatus \notin {ACT_NOT, ACT_NOT_UP})
            /\ d.activationStatus = <<>> =>
                   (d.isActive <=> d.estPurchaseDate \in {DATE_ISO, DATE_TEXT})

\* C6 witness: no activation status and the purchase date 2021-03-01 give an
\* active device
C6_Witness ==
    \E k \in DOMAIN devices :
        /\ devices[k].activationStatus = <<>>
        /\ devices[k].estPurchaseDate = DATE_ISO
        /\ devices[k].isActive

\* the places of the separator line in a text
SeparatorPlaces(text) == {i \in 1..Len(text) : MatchesAt(text, separator, i)}

\* C2: the seven bucket filters partition a device list: each device passes
\* exactly one filter, the bucket sizes add up to the length of the list, and the
\* exported text holds one separator line for each device.
C2_BucketsPartition ==
    /\ \A k \in DOMAIN devices : Cardinality({b \in 1..7 : inBucket(devices[k], b)}) = 1
    /\ Len(bucket(devices, 1)) + Len(bucket(devices, 2)) + Len(bucket(devices, 3))
           + Len(bucket(devices, 4)) + Len(bucket(devices, 5)) + Len(bucket(devices, 6))
           + Len(bucket(devices, 7)) = Len(devices)
    /\ showExportModal => Cardinality(SeparatorPlaces(exportText)) = Len(devices)

\* C2 witness: an exported list of two devices, an iCloud-locked T-Mobile device
\* and an unlocked device that is not active
C2_Witness ==
    /\ showExportModal
    /\ Len(devices) = 2
    /\ \E a, b \in DOMAIN devices :
          /\ devices[a].icloudLock = W_ON
          /\ devices[a].group = "T-Mobile/Sprint"
          /\ devices[b].group = "Unlocked"
          /\ ~devices[b].isActive
          /\ devices[b].icloudLock # W_ON

--------------------------------------------------------------------------
(* Properties of handleBulkSearch, under SpecSearch                       *)

\* the place of a device of the Registry, by its id
RegistryPlace(d) == CHOOSE k \in DOMAIN devices : devices[k].id = d.id

\* token t is a substring of the imei or of the serial of d
TokenMatches(d, t) == includes(d.imei, t) \/ includes(d.serial, t)

\* the place, among the unique tokens, of the first token that matches d
FirstToken(d, tokens) == SetMin({n \in DOMAIN tokens : TokenMatches(d, tokens[n])})

\* C3 as stated: the matched list is in Registry order.
C3_RegistryOrder ==
    searchResults # Null =>
        \A a, b \in DOMAIN searchResults[1] :
            a < b => RegistryPlace(searchResults[1][a]) < RegistryPlace(searchResults[1][b])

\* C3 as amended: the matched list is in the order in which the unique tokens
\* first matched the devices: a device found by an earlier token comes before
\* a device found first by a later token, and the devices one token finds first
\* are in Registry order.
C3_FirstMatchOrder ==
    searchResults # Null =>
        LET results == searchResults[1]
            tokens == uniqueQueries(bulkQuery)
        IN  \A a, b \in DOMAIN results :
                a < b =>
                    \/ FirstToken(results[a], tokens) < FirstToken(results[b], tokens)
                    \/ /\ FirstToken(results[a], tokens) = FirstToken(results[b], tokens)
                       /\ RegistryPlace(results[a]) < RegistryPlace(results[b])

\* C3 witness: a matched list of several devices that is not in Registry order
C3_Witness ==
    /\ searchResults # Null
    /\ Len(searchResults[1]) >= 2
    /\ RegistryPlace(searchResults[1][1]) > RegistryPlace(searchResults[1][2])

\* C4: after a search with a query that is not blank, a unique token is listed in
\* notFoundQueries exactly when no device of the Registry holds it as a substring
\* of its imei or serial, in the case it was typed; nothing else is listed.
C4_NotFoundIffNoMatch ==
    searchResults # Null =>
        LET tokens == uniqueQueries(bulkQuery)
            listed == {notFoundQueries[n] : n \in DOMAIN notFoundQueries}
        IN  /\ \A n \in DOMAIN tokens :
                  tokens[n] \in listed <=>
                      ~\E k \in DOMAIN devices : TokenMatches(devices[k], tokens[n])
            /\ listed \subseteq {tokens[n] : n \in DOMAIN tokens}
            /\ \A t \in SearchTokens :
                  (includes(bulkQuery, t) /\ t \notin listed) =>
                      \E k \in DOMAIN devices : TokenMatches(devices[k], t)
            /\ includes(bulkQuery, TOK_f2l) => TOK_f2l \in listed

\* C4 witness: a token that a serial holds and the same token typed in the other
\* case: the first finds its device, only the second is listed
C4_Witness ==
    /\ searchResults # Null
    /\ Len(searchResults[1]) >= 1
    /\ bulkQuery = queryText(<<TOK_F2L, TOK_f2l>>, 1)
    /\ notFoundQueries = <<TOK_f2l>>

\* C7: the matched list holds no id twice, holds every device of the Registry
\* that some token matches, and holds nothing else.
C7_MatchedOnceAndAll ==
    searchResults # Null =>
        LET results == searchResults[1]
            tokens == uniqueQueries(bulkQuery)
        IN  /\ \A a, b \in DOMAIN results : a # b => results[a].id # results[b].id
            /\ \A k \in DOMAIN devices :
                  (\E n \in DOMAIN tokens : TokenMatches(devices[k], tokens[n]))
                      <=> (\E a \in DOMAIN results : results[a] = devices[k])

\* C7 witness: one token that two devices hold, and a second token that matches
\* one of them again: two results
C7_Witness ==
    /\ searchResults # Null
    /\ bulkQuery = queryText(<<TOK_1111, TOK_2222>>, 1)
    /\ Len(devices) = 3
    /\ Len(searchResults[1]) = 2

--------------------------------------------------------------------------
(* Properties of the image batch and the manual-fix queue, under SpecImages *)

\* some device of the Registry, as it is now, has this imei
InRegistry(imei) == \E k \in DOMAIN devices : devices[k].imei = imei

\* the 15-digit answers the vision call can give
VisionImeis ==
    {cleanText(visionText(o)) : o \in {v \in VisionOutcomes : ~v.throws /\ Len(cleanText(visionText(v))) = 15}}

\* the step decides the next image of the batch and accepts imei for the bulk
\* query: the call's list of found imeis grows by it or, at the last image, the
\* list with it is appended to the bulk query
AcceptsImei(imei) ==
    /\ imgRun # Null
    /\ imgRun' # imgRun
    /\ IF imgRun' # Null
       THEN imgRun'[1].newImeis = Append(imgRun[1].newImeis, imei)
       ELSE bulkQuery' = appendLine(bulkQuery, join(Append(imgRun[1].newImeis, imei), NEWLINE))

\* C9 as stated: an imei the vision call returns is accepted for the bulk query
\* only if a device of the Registry, as it is when the image is decided, has it.
C9_AcceptedOnlyIfInCurrentRegistry ==
    [][\A imei \in VisionImeis : AcceptsImei(imei) => InRegistry(imei)]_vars

\* the files of the items of a list of failed images
FilesOf(items) == [k \in DOMAIN items |-> items[k].file]

StrictlyIncreasing(s) == \A a, b \in DOMAIN s : a < b => s[a] < s[b]

\* the files that are queued, then those the running batch has failed, then those
\* it has yet to decide
PendingFiles ==
    FilesOf(manualFixQueue)
        \o (IF imgRun = Null THEN <<>> ELSE FilesOf(imgRun[1].failed) \o imgRun[1].files)

\* a step that changes the queue removes its head (the bulk query unchanged, or
\* one entered value appended to it), or appends at its tail failed images of
\* the batch that ends with the step
QueueStep ==
    manualFixQueue' # manualFixQueue =>
        \/ /\ Len(manualFixQueue) > 0
           /\ manualFixQueue' = Tail(manualFixQueue)
           /\ \/ bulkQuery' = bulkQuery
              \/ \E v \in ManualInputs : bulkQuery' = appendLine(bulkQuery, v)
        \/ /\ Len(manualFixQueue') > Len(manualFixQueue)
           /\ SubSeq(manualFixQueue', 1, Len(manualFixQueue)) = manualFixQueue
           /\ imgRun # Null
           /\ imgRun' = Null
           /\ \A k \in (Len(manualFixQueue) + 1)..Len(manualFixQueue') :
                 manualFixQueue'[k].file \in
                     {imgRun[1].failed[n].file : n \in DOMAIN imgRun[1].failed}
                         \cup {Head(imgRun[1].files)}

\* a batch that starts holds only files no batch held before
BatchStep ==
    (imgRun = Null /\ imgRun' # Null) =>
        /\ \A k \in DOMAIN imgRun'[1].files : imgRun'[1].files[k] > nextFile
        /\ \A k \in DOMAIN imgRun'[1].files : imgRun'[1].files[k] <= nextFile'

\* C10: the manual-fix queue is first in, first out and resolves each item once:
\* no file is pending twice, the queued files are older than those of the running
\* batch, every file is one a batch was given, and the queue changes only by
\* losing its head to handleManualFix or handleSkipFix or by gaining failed images
\* of the ending batch at its tail.
C10_QueueFifoOnce ==
    /\ [](StrictlyIncreasing(PendingFiles)
            /\ \A k \in DOMAIN PendingFiles : PendingFiles[k] <= nextFile)
    /\ [][QueueStep /\ BatchStep]_vars

\* C10 witness: of two failed images queued, the first has been resolved by a
\* manual entry and the second is now the head
C10_Witness ==
    /\ bulkQuery = MANUAL_D
    /\ Len(manualFixQueue) = 1
    /\ manualFixQueue[1].file = 2
    /\ imgRun = Null

--------------------------------------------------------------------------
(* Properties of the image loop, under SpecImages                         *)

\* the lists of found imeis and of failed images the running call can hold after
\* deciding its next image: the image's imei joins the first list, or one entry
\* for the image joins the second, never both and never neither
OutcomesOfNext(run) ==
    {[newImeis |-> Append(run.newImeis, x), failed |-> run.failed] : x \in VisionImeis}
        \cup {[newImeis |-> run.newImeis,
                failed |-> Append(run.failed, [file |-> Head(run.files), suggestedImei |-> s])] :
                    s \in VisionImeis \cup {<<>>}}

\* a step of the running call decides exactly the next image of the batch; the
\* other images stay to be decided, and with the last image the found imeis go to
\* the bulk query and the failed images to the manual-fix queue
LoopStep ==
    (imgRun # Null /\ imgRun' # imgRun) =>
        LET run == imgRun[1]
        IN  \E o \in OutcomesOfNext(run) :
                IF Tail(run.files) # <<>>
                THEN /\ imgRun' = Some([run EXCEPT !.files = Tail(run.files),
                                                   !.newImeis = o.newImeis,
                                                   !.failed = o.failed])
                     /\ bulkQuery' = bulkQuery
                     /\ manualFixQueue' = manualFixQueue
                ELSE /\ imgRun' = Null
                     /\ bulkQuery' = IF o.newImeis = <<>> THEN bulkQuery
                                     ELSE appendLine(bulkQuery, join(o.newImeis, NEWLINE))
                     /\ manualFixQueue' = manualFixQueue \o o.failed

\* a call that enters its loop holds the files of the batch in order, all still
\* to be decided, and has found and failed nothing
LoopStart ==
    (imgRun = Null /\ imgRun' # Null) =>
        /\ imgRun'[1].files = [k \in 1..(nextFile' - nextFile) |-> nextFile + k]
        /\ nextFile' > nextFile
        /\ imgRun'[1].newImeis = <<>>
        /\ imgRun'[1].failed = <<>>

\* C11: the images of a batch are decided one at a time in order, and each gets
\* exactly one outcome, its imei among those appended to the bulk query or one
\* entry on the manual-fix queue; an image that fails leaves the images behind
\* it to be decided.
C11_OneOutcomePerImage ==
    /\ [](imgRun # Null => imgRun[1].files # <<>>)
    /\ [][LoopStart /\ LoopStep]_vars

\* C11 witness: a batch of two images has ended, the first image failed and is
\* queued, the imei of the second is in the bulk query
C11_Witness ==
    /\ imgRun = Null
    /\ ~isProcessingImages
    /\ nextFile = 2
    /\ bulkQuery = IMEI_C
    /\ manualFixQueue = <<[file |-> 1, suggestedImei |-> <<>>]>>

--------------------------------------------------------------------------
(* Properties of the Registry, under SpecApp                              *)

\* C12: a step that is the onload of a read file replaces the Registry by the
\* devices parsed from that file's text and shows the dashboard; every other
\* step, a search, an export, a step of an image batch, a manual fix or skip,
\* the closing of a modal, leaves the Registry and every device in it as it was.
C12_RegistryOnlyByUpload ==
    [][/\ \A f \in pendingReads :
              IsOnloadOf(f) => (devices' = parseSickwHtml(fileText(f)) /\ view' = "dashboard")
       /\ (\A f \in pendingReads : ~IsOnloadOf(f)) => devices' = devices]_vars

\* C12 witness: a second document has replaced the two devices of the first by
\* its one device, after a search, an export and an image batch
C12_Witness ==
    /\ Len(devices) = 1
    /\ devices[1].imei = IMEI_B
    /\ searchResults # Null
    /\ Len(searchResults[1]) = 2
    /\ showExportModal
    /\ nextFile > 0
    /\ imgRun = Null
    /\ ~isProcessingImages

--------------------------------------------------------------------------
(* Properties of the extracted fields, under SpecParse                    *)

\* C13 as stated: the icloudLock of every extracted device is 'ON', 'OFF' or ''.
C13_IcloudLockOnOffEmpty ==
    \A k \in DOMAIN devices : devices[k].icloudLock \in {W_ON, ICLOUD_OFF, <<>>}

\* the first position from start on where a break tag or a newline begins, or
\* the position behind the block when there is none
NearestBreak(preContent, start) ==
    LET marks == {i \in start..Len(preContent) :
                     MatchesAt(preContent, BR_TAG, i) \/ MatchesAt(preContent, NEWLINE, i)}
    IN  IF marks = {} THEN Len(preContent) + 1 ELSE SetMin(marks)

\* the value of a field when it ends at the nearest line-break marker
ValueToNearestBreak(preContent, key) ==
    LET searchKey == key \o <<":">>
        idx == indexOf(preContent, searchKey, 1)
        start == idx + Len(searchKey)
    IN  IF idx = 0 THEN <<>>
        ELSE trim(replaceAll(stripTags(substring(preContent, start,
                                                 NearestBreak(preContent, start))),
                             NBSP_ENTITY, <<" ">>))

\* C15 as stated: the value of a field ends at whichever of the next break tag
\* and the next newline comes first, or at the end of the block.
C15_ValueEndsAtNearestBreak ==
    \A k \in DOMAIN devices :
        /\ devices[k].serial = ValueToNearestBreak(devices[k].rawText, KEY_SerialNumber)
        /\ devices[k].simLock = ValueToNearestBreak(devices[k].rawText, KEY_SimLockStatus)
        /\ devices[k].modelDesc = ValueToNearestBreak(devices[k].rawText, KEY_ModelDescription)

--------------------------------------------------------------------------
(* Properties of repeated searches, under SpecApp                         *)

\* the devices of devs that token t matches, in the order of devs
MatchedBy(devs, t) == SelectSeq(devs, LAMBDA d : TokenMatches(d, t))

RECURSIVE ResultsOf(_, _, _)
\* the devices the first n tokens match: those of the tokens before the n-th,
\* then the devices the n-th token matches that are not among them
ResultsOf(devs, tokens, n) ==
    IF n = 0 THEN <<>>
    ELSE LET before == ResultsOf(devs, tokens, n - 1)
         IN  before \o SelectSeq(MatchedBy(devs, tokens[n]),
                                 LAMBDA d : \A k \in DOMAIN before : before[k].id # d.id)

\* the tokens that match no device, in their order
MissingOf(devs, tokens) == SelectSeq(tokens, LAMBDA t : Len(MatchedBy(devs, t)) = 0)

\* C14: the lists a search leaves are a function of the Registry and the query
\* string alone: null and the empty list for a blank query, else the devices
\* matched and the tokens missing, whatever the lists held before; so a second
\* search with the same Registry and query leaves the same lists.
C14_SearchDependsOnRegistryAndQuery ==
    [][handleBulkSearch =>
          LET tokens == uniqueQueries(bulkQuery)
          IN  IF trim(bulkQuery) = <<>>
              THEN searchResults' = Null /\ notFoundQueries' = <<>>
              ELSE /\ searchResults' = Some(ResultsOf(devices, tokens, Len(tokens)))
                   /\ notFoundQueries' = MissingOf(devices, tokens)]_vars

\* C14 witness: a search that found nothing in the Registry of the second
\* document, run after a search that found an iCloud-locked device in the first
C14_Witness ==
    /\ searchResults = Some(<<>>)
    /\ bulkQuery = TOK_1111
    /\ notFoundQueries = <<TOK_1111>>
    /\ Len(icloudAlertDevices) > 0
    /\ Len(devices) = 1

--------------------------------------------------------------------------
(* Properties of the exported text, under SpecParse                       *)

\* the lines of a text
LinesOf(text) == split(text, NEWLINE)

\* the lines of the header of bucket b: for some buckets a sentence and an empty
\* line, then the title line, then an empty line
HeaderLines(b) ==
    LET ls == LinesOf(bucketHeader(b)) IN SubSeq(ls, 1, Len(ls) - 1)

\* the title line of bucket b
TitleLine(b) == LET ls == HeaderLines(b) IN ls[Len(ls) - 1]

RECURSIVE DeviceLines(_, _)
\* for each device in order its model line, its imei line and the separator
\* line, with the lines of gap between one device and the next
DeviceLines(devs, gap) ==
    IF devs = <<>> THEN <<>>
    ELSE <<cleanModel(devs[1].modelDesc), devs[1].imei, separator>>
             \o (IF Len(devs) > 1 THEN gap \o DeviceLines(Tail(devs), gap) ELSE <<>>)

RECURSIVE SectionLines(_, _, _)
\* the lines of the sections of the buckets from b on that are not empty, one
\* empty line between two sections
SectionLines(devs, b, gap) ==
    IF b > 7 THEN <<>>
    ELSE LET rest == SectionLines(devs, b + 1, gap)
             own == HeaderLines(b) \o DeviceLines(bucket(devs, b), gap)
         IN  IF bucket(devs, b) = <<>> THEN rest
             ELSE IF rest = <<>> THEN own
             ELSE own \o <<<<>>>> \o rest

\* the exported text is made of the lines of the sections, the devices of a
\* section separated by the lines of gap
ExportIsSections(gap) ==
    showExportModal =>
        IF devices = <<>> THEN exportText = <<>>
        ELSE LinesOf(exportText) = SectionLines(devices, 1, gap)

\* C16 as stated: each bucket that is not empty is its header followed by the
\* model, imei and separator lines of its devices in input order, one empty line
\* between a separator line and the next device's model line, and one empty line
\* between sections.
C16_BlankLineBetweenDevices == ExportIsSections(<<<<>>>>)

\* C16 as amended: as stated, except that the next device's model line follows
\* the separator line of the device before it directly, with no empty line
\* between them; an empty line stands between the title line and the first model
\* line and between sections.
C16_DevicesFollowDirectly == ExportIsSections(<<>>)

\* C16 witness: an exported list with two devices in one bucket
C16_Witness ==
    /\ showExportModal
    /\ \E b \in 1..7 : Len(bucket(devices, b)) = 2

\* the buckets that hold a device, in the order 1..7
NonEmptyBuckets(devs) ==
    SelectSeq([b \in 1..7 |-> b], LAMBDA b : bucket(devs, b) # <<>>)

RECURSIVE SectionsSize(_, _)
\* the number of header and device lines of the sections of the buckets bs
SectionsSize(devs, bs) ==
    IF bs = <<>> THEN 0
    ELSE Len(HeaderLines(bs[1])) + 3 * Len(bucket(devs, bs[1])) + SectionsSize(devs, Tail(bs))

\* C17: the title lines of the exported text are those of the buckets that hold
\* a device, in the fixed order ICLOUD, LOCKED N NON ACTIVE T-MOBILE, LOCKED N
\* ACTIVE T-MOBILE, LOCKED N NON ACTIVE, LOCKED N ACTIVE, UNLOCKED N NON ACTIVE,
\* UNLOCKED N ACTIVE, whatever the order of the devices; no line of the header of
\* an empty bucket is in the text and no line beyond the headers, the device
\* lines and the empty lines between sections; an empty list gives the empty text.
C17_SectionsInFixedOrder ==
    showExportModal =>
        LET ls == LinesOf(exportText)
            titles == SelectSeq(ls, LAMBDA l : \E b \in 1..7 : l = TitleLine(b))
            full == NonEmptyBuckets(devices)
        IN  /\ titles = [k \in DOMAIN full |-> TitleLine(full[k])]
            /\ \A b \in 1..7 :
                  bucket(devices, b) = <<>> =>
                      \A n \in DOMAIN ls :
                          ls[n] = <<>> \/ \A h \in DOMAIN HeaderLines(b) : ls[n] # HeaderLines(b)[h]
            /\ devices # <<>> => Len(ls) = SectionsSize(devices, full) + Len(full) - 1
            /\ devices = <<>> => exportText = <<>>

\* C17 witness: two devices exported, the first of a later section than the second
C17_Witness ==
    /\ showExportModal
    /\ Len(devices) = 2
    /\ \E b1, b2 \in 1..7 :
          /\ b2 < b1
          /\ inBucket(devices[1], b1)
          /\ inBucket(devices[2], b2)

--------------------------------------------------------------------------
(* Properties of the tokens of a query, under SpecSearch                  *)

\* the characters that separate tokens
QuerySeparators == {"\n", ",", " ", "\t"}

RECURSIVE InOrder(_)
\* the numbers of a finite set, ascending
InOrder(S) == IF S = {} THEN <<>> ELSE <<SetMin(S)>> \o InOrder(S \ {SetMin(S)})

\* the maximal runs of characters of a query that are not separators, in order
RunsOf(query) ==
    LET starts == {i \in 1..Len(query) :
                      /\ query[i] \notin QuerySeparators
                      /\ (i = 1 \/ query[i - 1] \in QuerySeparators)}
        lastOf(i) == SetMin({j \in i..Len(query) :
                                j = Len(query) \/ query[j + 1] \in QuerySeparators})
        order == InOrder(starts)
    IN  [n \in DOMAIN order |-> SubSeq(query, order[n], lastOf(order[n]))]

\* the items of a list without those that occur earlier in it
FirstOccurrences(list) ==
    LET keep == SelectSeq([k \in DOMAIN list |-> k],
                          LAMBDA k : \A j \in 1..(k - 1) : list[j] # list[k])
    IN  [n \in DOMAIN keep |-> list[keep[n]]]

\* the distinct tokens of a query in the order of their first occurrence
TokensOf(query) ==
    LET runs == RunsOf(query)
        trimmed == [n \in DOMAIN runs |-> trim(runs[n])]
    IN  FirstOccurrences(SelectSeq(trimmed, LAMBDA t : t # <<>>))

\* C18: the tokens a search looks up are the runs of the query between runs of
\* newline, comma, space and tab, none empty, each once, in the order of their
\* first occurrence; notFoundQueries holds no token twice and lists the tokens
\* that match no device in that order.
C18_TokensOnceInFirstOrder ==
    /\ uniqueQueries(bulkQuery) = TokensOf(bulkQuery)
    /\ searchResults # Null =>
           /\ notFoundQueries =
                  SelectSeq(TokensOf(bulkQuery),
                            LAMBDA t : \A k \in DOMAIN devices : ~TokenMatches(devices[k], t))
           /\ \A a, b \in DOMAIN notFoundQueries :
                  a # b => notFoundQueries[a] # notFoundQueries[b]

\* C18 witness: a query with separators before and behind it, an empty token and a
\* token typed twice; the two distinct tokens are listed once each, in order
C18_Witness ==
    /\ bulkQuery = QUERY_PADDED
    /\ searchResults # Null
    /\ notFoundQueries = <<TOK_9876, TOK_f2l>>

--------------------------------------------------------------------------
(* Properties of the search results and the Registry, under SpecApp       *)

\* C19 as stated: when searchResults is not null, every device in it is a device
\* of the Registry as it is now, so that handleExport, which formats searchResults
\* when it is not null, formats only devices of the Registry.
C19_ResultsWithinRegistry ==
    searchResults # Null =>
        \A a \in DOMAIN searchResults[1] :
            \E k \in DOMAIN devices : devices[k] = searchResults[1][a]

--------------------------------------------------------------------------
(* Properties of isProcessingImages, under SpecImagesFair                 *)

\* C20 as stated: whenever isProcessingImages is true it is false again later,
\* whatever the vision call or the setup of the client does.
C20_ProcessingEnds == isProcessingImages ~> ~isProcessingImages

--------------------------------------------------------------------------
(* Properties of the iCloud alert, under SpecApp                          *)

\* the devices of a list whose icloudLock is 'ON', in the order of the list
LockedIn(results) == SelectSeq(results, LAMBDA d : d.icloudLock = W_ON)

\* C21 as stated: after every search with a query that is not blank,
\* icloudAlertDevices is exactly the devices of the new searchResults whose
\* icloudLock is 'ON', the empty list when there are none.
C21_AlertIsLockedOfResults ==
    [][(handleBulkSearch /\ trim(bulkQuery) # <<>>) =>
          LET results == searchResults'[1]
          IN  icloudAlertDevices' = LockedIn(results)]_vars

====
